---- MODULE Spec2Model ----
(***************************************************************************)
(* BaseService<T> of x-server (src/unnamed/part_000): the generic CRUD     *)
(* service over a mongoose model, a cache, an activity log and an event   *)
(* emitter.  Every async method is modelled step by step: one action per  *)
(* await point, which performs the awaited call and runs the synchronous  *)
(* continuation up to the next await (or to the return / throw).          *)
(***************************************************************************)
EXTENDS Naturals, Sequences, FiniteSets, TLC

(* ------------------------------ universe ------------------------------ *)

\* Callers that may have a call in flight.
Procs == {"p1", "p2"}
\* Well-formed object ids, and an identifier isValidObjectId rejects.
ValidIds == {"id1", "id2"}
InvalidIds == {"bad"}
\* The object ids new this.model(...) generates; "id2" is never stored.
NewIds == {"id1"}
\* Payloads of create/update; queries of search.
Data == {"a", "b"}
Queries == {"a"}
\* The requesting user.
User == [userId |-> "u1"]
\* Capacity of the audit log in the model: a full log rejects appends.
MaxLog == 1

\* Defaults of findAll's page and limit parameters.
DefaultPage == 1
DefaultLimit == 10

Ops == {"create", "update", "remove", "softRemove", "findAll", "findOne", "search"}

\* Kinds of dependency whose calls may fail.
AllFaults == {"hook", "db", "cache"}

NoVal == [shape |-> "none"]
NoError == [err |-> "none", at |-> "none"]
NoResult == [kind |-> "none", msg |-> "", value |-> NoVal]
NoCall == [op |-> "none", id |-> "none", data |-> "none"]

VARIABLES
    store,        \* the collection: id -> document, for the ids that exist
    allocated,    \* object ids ever generated by new this.model(...)
    cache,        \* CacheService: key -> cached value
    auditLog,     \* ActivityLogService: the appended entries
    events,       \* what this.eventEmitter has emitted
    pc,           \* per caller: the await point its call is suspended at
    call,         \* per caller: the method called and its arguments
    local,        \* per caller: the method's local (entity / total / data)
    result,       \* per caller: what the returned promise settled to
    thrown,       \* per caller: the error first raised inside the call
    storeAtCall,  \* per caller: the collection when the call was made
    stale,        \* history: cache keys written before a later create/update/remove
    racy          \* history: cache keys written with a document changed since it was read

vars == <<store, allocated, cache, auditLog, events, pc, call, local, result,
          thrown, storeAtCall, stale, racy>>

(* ------------------------------ mongoose ------------------------------ *)

isValidObjectId(id) == id \in ValidIds

\* A document: its _id, its payload and the soft-delete flag.  The other
\* bookkeeping fields (createdBy, updatedBy, deletedBy, deletedAt) are written
\* with the payload and read by nothing in the service.
Entity(id, data) == [id |-> id, data |-> data, isDeleted |-> FALSE]

Lookup(st, id) == IF id \in DOMAIN st THEN st[id] ELSE NoVal

\* model.findById(id).exec()
FindById(st, id) == [store |-> st, doc |-> Lookup(st, id)]

\* model.findByIdAndUpdate(id, patch, { new: true }).exec()
FindByIdAndUpdate(st, id, patch) ==
    IF id \in DOMAIN st
    THEN LET d == [f \in DOMAIN st[id] |->
                      IF f \in DOMAIN patch THEN patch[f] ELSE st[id][f]]
         IN  [store |-> [st EXCEPT ![id] = d], doc |-> d]
    ELSE [store |-> st, doc |-> NoVal]

\* model.findByIdAndDelete(id).exec()
FindByIdAndDelete(st, id) ==
    IF id \in DOMAIN st
    THEN [store |-> [i \in DOMAIN st \ {id} |-> st[i]], doc |-> st[id]]
    ELSE [store |-> st, doc |-> NoVal]

\* entity.save()
Save(st, e) == [i \in DOMAIN st \cup {e.id} |-> IF i = e.id THEN e ELSE st[i]]

\* Filter conditions: {} and { $text: { $search: query } }.
EmptyFilter == << >>
TextFilter(query) == <<"$text", query>>
NoSort == << >>

\* Does a document satisfy a filter condition.
Matches(cond, d) == IF cond = EmptyFilter THEN TRUE ELSE d.data = cond[2]

\* model.find(condition).skip(..).limit(..).sort(..).exec()
Find(st, cond) == {st[i] : i \in {j \in DOMAIN st : Matches(cond, st[j])}}

\* model.countDocuments(condition).exec()
CountDocuments(st, cond) == Cardinality(Find(st, cond))

(* ---------------------------- CacheService ---------------------------- *)

\* Cache keys `${collection}-findOne-${id}` and
\* `${collection}-findAll-${condition}-${page}-${limit}-${sort}`, as tuples
\* of their parts; a pattern ends in "*".
FindOneKey(id) == <<"findOne", id>>
FindAllKey(cond, page, limit, sort) == <<"findAll", cond, page, limit, sort>>
FindAllPattern == <<"findAll", "*">>

KeyMatches(pattern, key) ==
    IF pattern[Len(pattern)] = "*"
    THEN /\ Len(key) >= Len(pattern) - 1
         /\ \A i \in 1..(Len(pattern) - 1) : key[i] = pattern[i]
    ELSE key = pattern

GetCached(c, key) == IF key \in DOMAIN c THEN c[key] ELSE NoVal

SetCached(c, key, v) == [k \in DOMAIN c \cup {key} |-> IF k = key THEN v ELSE c[k]]

DelCache(c, pattern) ==
    [k \in {x \in DOMAIN c : ~KeyMatches(pattern, x)} |-> c[k]]

DelKeys(s, pattern) == {k \in s : ~KeyMatches(pattern, k)}

(* ------------------------------- hooks -------------------------------- *)

\* The default hooks return their argument; an overriding subclass may throw.
onView(data) == data
onFinding(condition) == condition
beforeCreate(data) == data
beforeUpdate(data) == data

(* ------------------------------ helpers ------------------------------- *)

Outcomes(F, kind) == IF kind \in F THEN BOOLEAN ELSE {TRUE}

Ok(v) == [kind |-> "ok", msg |-> "", value |-> v]
Failure(kind, msg) == [kind |-> kind, msg |-> msg, value |-> NoVal]
Internal(msg) == Failure("InternalServerErrorException", msg)

Error(err, at) == [err |-> err, at |-> at]

\* this.eventEmitter is declared (line 23) but neither injected nor assigned.
eventEmitter == "undefined"

\* A softRemove that forgot the identifier check.
ValidatesIdExceptSoftRemove(op) == op \in {"update", "remove", "findOne"}

\* Which methods check isValidObjectId(id) before anything else.
ValidatesId(op) == op \in {"update", "remove", "findOne", "softRemove"}

\* The first await of each method.
FirstAwait(op) ==
    CASE op = "create" -> "cBefore"
      [] op = "update" -> "uBefore"
      [] op = "remove" -> "rFind"
      [] op = "softRemove" -> "srDb"
      [] op = "findAll" -> "faFinding"
      [] op = "search" -> "faFinding"
      [] op = "findOne" -> "foGet"

\* The argument lists a method is called with.
CallsOf(op) ==
    CASE op = "create" -> {[op |-> op, id |-> "none", data |-> d] : d \in Data}
      [] op = "update" ->
            {[op |-> op, id |-> i, data |-> d] : i \in ValidIds \cup InvalidIds, d \in Data}
      [] op \in {"remove", "softRemove", "findOne"} ->
            {[op |-> op, id |-> i, data |-> "none"] : i \in ValidIds \cup InvalidIds}
      [] op = "findAll" -> {[op |-> op, id |-> "none", data |-> "none"]}
      [] op = "search" -> {[op |-> op, id |-> "none", data |-> q] : q \in Queries}

\* Cache keys a successful write must drop, in the order the code drops them.
CreateInvalidates == <<FindAllPattern>>
\* An update that drops the document's entry twice and no findAll page.
UpdateInvalidatesOnlyOne(id) == <<FindOneKey(id), FindOneKey(id)>>
UpdateInvalidates(id) == <<FindOneKey(id), FindAllPattern>>
\* A remove that drops the findAll pages twice and not the document's entry.
RemoveInvalidatesOnlyAll(id) == <<FindAllPattern, FindAllPattern>>
RemoveInvalidates(id) == <<FindOneKey(id), FindAllPattern>>

\* Keys of the cache whose value was read before a write of document id
\* (history only: the entry of that document and every findAll page).
Outdated(c, id) == {k \in DOMAIN c : k = FindOneKey(id) \/ k[1] = "findAll"}

SetProc(p, l, loc, res, thr) ==
    /\ pc' = [pc EXCEPT ![p] = l]
    /\ local' = [local EXCEPT ![p] = loc]
    /\ result' = [result EXCEPT ![p] = res]
    /\ thrown' = [thrown EXCEPT ![p] = thr]

\* Suspend at the next await.
Goto(p, l, loc) == SetProc(p, l, loc, result[p], thrown[p])
\* return v
Return(p, v) == SetProc(p, "done", NoVal, Ok(v), thrown[p])
\* An error raised at label `at`; res is what the call's promise rejects with.
Throw(p, err, at, res) == SetProc(p, "done", NoVal, res, Error(err, at))
\* An error raised outside every try block reaches the caller as it is.
Raw(err) == Failure(err, "")

\* A logActivity without its try/catch: a failed append is rethrown.
LogActivityPropagating(ok, action, documentId) ==
    [log |-> IF ok THEN Append(auditLog, [action |-> action, documentId |-> documentId])
                  ELSE auditLog,
     raised |-> ~ok]

\* logActivity(action, documentId, user, changes): try { append } catch { console.error }
LogActivity(ok, action, documentId) ==
    [log |-> IF ok THEN Append(auditLog, [action |-> action, documentId |-> documentId])
                  ELSE auditLog,
     raised |-> FALSE]

\* The append fails when the service does, and always once the log is full.
AuditOutcomes == IF Len(auditLog) < MaxLog THEN BOOLEAN ELSE {FALSE}

\* this.eventEmitter.emit(name, { entity, user }); return value
EmitAndReturn(p, name, e, value, at, msg) ==
    IF eventEmitter = "undefined"
    THEN /\ events' = events
         /\ Throw(p, "TypeError", at, Internal(msg))
    ELSE /\ events' = Append(events, [name |-> name, entity |-> e, user |-> User])
         /\ Return(p, value)

(* ------------------------- calling a method --------------------------- *)

\* The service as constructed: an empty collection, cache and audit log.
Init ==
    /\ store = << >>
    /\ allocated = {}
    /\ cache = << >>
    /\ auditLog = << >>
    /\ events = << >>
    /\ pc = [p \in Procs |-> "idle"]
    /\ call = [p \in Procs |-> NoCall]
    /\ local = [p \in Procs |-> NoVal]
    /\ result = [p \in Procs |-> NoResult]
    /\ thrown = [p \in Procs |-> NoError]
    /\ storeAtCall = [p \in Procs |-> << >>]
    /\ stale = {}
    /\ racy = {}


\* Ids that calls suspended before new this.model(...) will still need.
Reserved == Cardinality({q \in Procs : pc[q] = "cBefore"})

Start(p, O) ==
    /\ pc[p] = "idle"
    /\ \E op \in O : \E c \in CallsOf(op) :
          /\ op = "create" => Cardinality(allocated) + Reserved < Cardinality(NewIds)
          /\ call' = [call EXCEPT ![p] = c]
          /\ storeAtCall' = [storeAtCall EXCEPT ![p] = store]
          /\ IF ValidatesId(op) /\ ~isValidObjectId(c.id)
             THEN Throw(p, "BadRequestException", "start",
                        Failure("BadRequestException", "Invalid ID format"))
             ELSE Goto(p, FirstAwait(op), NoVal)
    /\ UNCHANGED <<store, allocated, cache, auditLog, events, stale, racy>>

\* The caller takes the settled promise.
Settle(p) ==
    /\ pc[p] = "done"
    /\ pc' = [pc EXCEPT ![p] = "idle"]
    /\ call' = [call EXCEPT ![p] = NoCall]
    /\ local' = [local EXCEPT ![p] = NoVal]
    /\ result' = [result EXCEPT ![p] = NoResult]
    /\ thrown' = [thrown EXCEPT ![p] = NoError]
    /\ storeAtCall' = [storeAtCall EXCEPT ![p] = << >>]
    /\ UNCHANGED <<store, allocated, cache, auditLog, events, stale, racy>>

(* ------------------------------ create -------------------------------- *)

\* await this.beforeCreate(data, user); new this.model(processedData)
CreateBefore(p, F) ==
    /\ pc[p] = "cBefore"
    /\ \E ok \in Outcomes(F, "hook") : \E id \in NewIds \ allocated :
          IF ok
          THEN /\ allocated' = allocated \cup {id}
               /\ Goto(p, "cSave", Entity(id, beforeCreate(call[p].data)))
          ELSE /\ allocated' = allocated
               /\ Throw(p, "HookError", "cBefore", Internal("Error creating entity"))
    /\ UNCHANGED <<store, cache, auditLog, events, call, storeAtCall, stale, racy>>

\* await entity.save()
CreateSave(p, F) ==
    /\ pc[p] = "cSave"
    /\ \E ok \in Outcomes(F, "db") :
          IF ok
          THEN /\ store' = Save(store, local[p])
               /\ stale' = stale \cup Outdated(cache, local[p].id)
               /\ Goto(p, "cAfter", local[p])
          ELSE /\ UNCHANGED <<store, stale, racy>>
               /\ Throw(p, "DbError", "cSave", Internal("Error creating entity"))
    /\ UNCHANGED <<allocated, cache, auditLog, events, call, storeAtCall, racy>>

\* await this.afterCreate(entity, user)
CreateAfter(p, F) ==
    /\ pc[p] = "cAfter"
    /\ \E ok \in Outcomes(F, "hook") :
          IF ok
          THEN Goto(p, "cLog", local[p])
          ELSE Throw(p, "HookError", "cAfter", Internal("Error creating entity"))
    /\ UNCHANGED <<store, allocated, cache, auditLog, events, call, storeAtCall, stale, racy>>

\* await this.logActivity('create', entity._id.toString(), user, data)
CreateLog(p) ==
    /\ pc[p] = "cLog"
    /\ \E ok \in AuditOutcomes :
          LET r == LogActivity(ok, "create", local[p].id)
          IN  /\ auditLog' = r.log
              /\ IF r.raised
                 THEN Throw(p, "AuditError", "cLog", Internal("Error creating entity"))
                 ELSE Goto(p, "cDel", local[p])
    /\ UNCHANGED <<store, allocated, cache, events, call, storeAtCall, stale, racy>>

\* await this.cacheService.delCache(`${collection}-findAll-*`); emit; return entity
CreateDel(p, F) ==
    /\ pc[p] = "cDel"
    /\ \E ok \in Outcomes(F, "cache") :
          IF ok
          THEN /\ cache' = DelCache(cache, CreateInvalidates[1])
               /\ stale' = DelKeys(stale, CreateInvalidates[1])
               /\ racy' = DelKeys(racy, CreateInvalidates[1])
               /\ EmitAndReturn(p, "saved", local[p], [shape |-> "entity", e |-> local[p]],
                                "cEmit", "Error creating entity")
          ELSE /\ UNCHANGED <<cache, stale, racy, events>>
               /\ Throw(p, "CacheError", "cDel", Internal("Error creating entity"))
    /\ UNCHANGED <<store, allocated, auditLog, call, storeAtCall>>

(* ------------------------------ update -------------------------------- *)

\* await this.beforeUpdate(id, data, user)
UpdateBefore(p, F) ==
    /\ pc[p] = "uBefore"
    /\ \E ok \in Outcomes(F, "hook") :
          IF ok
          THEN Goto(p, "uDb", [shape |-> "patch", data |-> beforeUpdate(call[p].data)])
          ELSE Throw(p, "HookError", "uBefore", Internal("Error updating entity"))
    /\ UNCHANGED <<store, allocated, cache, auditLog, events, call, storeAtCall, stale, racy>>

\* await this.model.findByIdAndUpdate(id, processedData, { new: true }).exec()
UpdateDb(p, F) ==
    /\ pc[p] = "uDb"
    /\ \E ok \in Outcomes(F, "db") :
          LET r == FindByIdAndUpdate(store, call[p].id, [data |-> local[p].data])
          IN  IF ~ok
              THEN /\ UNCHANGED <<store, stale, racy>>
                   /\ Throw(p, "DbError", "uDb", Internal("Error updating entity"))
              ELSE /\ store' = r.store
                   /\ IF r.doc = NoVal
                      THEN /\ stale' = stale
                           /\ Throw(p, "NotFoundException", "uDb",
                                    Internal("Error updating entity"))
                      ELSE /\ stale' = stale \cup Outdated(cache, call[p].id)
                           /\ Goto(p, "uAfter", r.doc)
    /\ UNCHANGED <<allocated, cache, auditLog, events, call, storeAtCall, racy>>

\* await this.afterUpdate(entity, user)
UpdateAfter(p, F) ==
    /\ pc[p] = "uAfter"
    /\ \E ok \in Outcomes(F, "hook") :
          IF ok
          THEN Goto(p, "uLog", local[p])
          ELSE Throw(p, "HookError", "uAfter", Internal("Error updating entity"))
    /\ UNCHANGED <<store, allocated, cache, auditLog, events, call, storeAtCall, stale, racy>>

\* await this.logActivity('update', id, user, data)
UpdateLog(p) ==
    /\ pc[p] = "uLog"
    /\ \E ok \in AuditOutcomes :
          LET r == LogActivity(ok, "update", call[p].id)
          IN  /\ auditLog' = r.log
              /\ IF r.raised
                 THEN Throw(p, "AuditError", "uLog", Internal("Error updating entity"))
                 ELSE Goto(p, "uDelOne", local[p])
    /\ UNCHANGED <<store, allocated, cache, events, call, storeAtCall, stale, racy>>

\* await this.cacheService.delCache(`${collection}-findOne-${id}`)
UpdateDelOne(p, F) ==
    /\ pc[p] = "uDelOne"
    /\ \E ok \in Outcomes(F, "cache") :
          IF ok
          THEN /\ cache' = DelCache(cache, UpdateInvalidates(call[p].id)[1])
               /\ stale' = DelKeys(stale, UpdateInvalidates(call[p].id)[1])
               /\ racy' = DelKeys(racy, UpdateInvalidates(call[p].id)[1])
               /\ Goto(p, "uDelAll", local[p])
          ELSE /\ UNCHANGED <<cache, stale, racy>>
               /\ Throw(p, "CacheError", "uDelOne", Internal("Error updating entity"))
    /\ UNCHANGED <<store, allocated, auditLog, events, call, storeAtCall>>

\* await this.cacheService.delCache(`${collection}-findAll-*`); emit; return entity
UpdateDelAll(p, F) ==
    /\ pc[p] = "uDelAll"
    /\ \E ok \in Outcomes(F, "cache") :
          IF ok
          THEN /\ cache' = DelCache(cache, UpdateInvalidates(call[p].id)[2])
               /\ stale' = DelKeys(stale, UpdateInvalidates(call[p].id)[2])
               /\ racy' = DelKeys(racy, UpdateInvalidates(call[p].id)[2])
               /\ EmitAndReturn(p, "saved", local[p], [shape |-> "entity", e |-> local[p]],
                                "uEmit", "Error updating entity")
          ELSE /\ UNCHANGED <<cache, stale, racy, events>>
               /\ Throw(p, "CacheError", "uDelAll", Internal("Error updating entity"))
    /\ UNCHANGED <<store, allocated, auditLog, call, storeAtCall>>

(* ------------------------------ remove -------------------------------- *)

\* A remove that deletes the document before it runs beforeRemove.
RemoveLoadDeleting(st, id) == FindByIdAndDelete(st, id)

\* const entity = await this.model.findById(id).exec()
RemoveLoad(st, id) == FindById(st, id)

RemoveFind(p, F) ==
    /\ pc[p] = "rFind"
    /\ \E ok \in Outcomes(F, "db") :
          LET r == RemoveLoad(store, call[p].id)
          IN  IF ok
              THEN /\ store' = r.store
                   /\ Goto(p, "rBefore", r.doc)
              ELSE /\ store' = store
                   /\ Throw(p, "DbError", "rFind", Internal("Error removing entity"))
    /\ UNCHANGED <<allocated, cache, auditLog, events, call, storeAtCall, stale, racy>>

\* await this.beforeRemove(entity, user)
RemoveBefore(p, F) ==
    /\ pc[p] = "rBefore"
    /\ \E ok \in Outcomes(F, "hook") :
          IF ok
          THEN Goto(p, "rDelete", local[p])
          ELSE Throw(p, "HookError", "rBefore", Internal("Error removing entity"))
    /\ UNCHANGED <<store, allocated, cache, auditLog, events, call, storeAtCall, stale, racy>>

\* const result = await this.model.findByIdAndDelete(id).exec()
RemoveDelete(p, F) ==
    /\ pc[p] = "rDelete"
    /\ \E ok \in Outcomes(F, "db") :
          LET r == FindByIdAndDelete(store, call[p].id)
          IN  IF ~ok
              THEN /\ UNCHANGED <<store, stale, racy>>
                   /\ Throw(p, "DbError", "rDelete", Internal("Error removing entity"))
              ELSE /\ store' = r.store
                   /\ IF r.doc = NoVal
                      THEN /\ stale' = stale
                           /\ Throw(p, "NotFoundException", "rDelete",
                                    Internal("Error removing entity"))
                      ELSE /\ stale' = stale \cup Outdated(cache, call[p].id)
                           /\ Goto(p, "rAfter", local[p])
    /\ UNCHANGED <<allocated, cache, auditLog, events, call, storeAtCall, racy>>

\* await this.afterRemove(entity, user)
RemoveAfter(p, F) ==
    /\ pc[p] = "rAfter"
    /\ \E ok \in Outcomes(F, "hook") :
          IF ok
          THEN Goto(p, "rLog", local[p])
          ELSE Throw(p, "HookError", "rAfter", Internal("Error removing entity"))
    /\ UNCHANGED <<store, allocated, cache, auditLog, events, call, storeAtCall, stale, racy>>

\* await this.logActivity('delete', id, user, entity)
RemoveLog(p) ==
    /\ pc[p] = "rLog"
    /\ \E ok \in AuditOutcomes :
          LET r == LogActivity(ok, "delete", call[p].id)
          IN  /\ auditLog' = r.log
              /\ IF r.raised
                 THEN Throw(p, "AuditError", "rLog", Internal("Error removing entity"))
                 ELSE Goto(p, "rDelOne", local[p])
    /\ UNCHANGED <<store, allocated, cache, events, call, storeAtCall, stale, racy>>

\* await this.cacheService.delCache(`${collection}-findOne-${id}`)
RemoveDelOne(p, F) ==
    /\ pc[p] = "rDelOne"
    /\ \E ok \in Outcomes(F, "cache") :
          IF ok
          THEN /\ cache' = DelCache(cache, RemoveInvalidates(call[p].id)[1])
               /\ stale' = DelKeys(stale, RemoveInvalidates(call[p].id)[1])
               /\ racy' = DelKeys(racy, RemoveInvalidates(call[p].id)[1])
               /\ Goto(p, "rDelAll", local[p])
          ELSE /\ UNCHANGED <<cache, stale, racy>>
               /\ Throw(p, "CacheError", "rDelOne", Internal("Error removing entity"))
    /\ UNCHANGED <<store, allocated, auditLog, events, call, storeAtCall>>

\* await this.cacheService.delCache(`${collection}-findAll-*`); emit; return
RemoveDelAll(p, F) ==
    /\ pc[p] = "rDelAll"
    /\ \E ok \in Outcomes(F, "cache") :
          IF ok
          THEN /\ cache' = DelCache(cache, RemoveInvalidates(call[p].id)[2])
               /\ stale' = DelKeys(stale, RemoveInvalidates(call[p].id)[2])
               /\ racy' = DelKeys(racy, RemoveInvalidates(call[p].id)[2])
               /\ EmitAndReturn(p, "deleted", local[p], [shape |-> "void"],
                                "rEmit", "Error removing entity")
          ELSE /\ UNCHANGED <<cache, stale, racy, events>>
               /\ Throw(p, "CacheError", "rDelAll", Internal("Error removing entity"))
    /\ UNCHANGED <<store, allocated, auditLog, call, storeAtCall>>

(* ---------------------------- softRemove ------------------------------ *)

\* await this.model.findByIdAndUpdate(id, { isDeleted: true, ... }, { new: true }).exec()
SoftRemoveDb(p, F) ==
    /\ pc[p] = "srDb"
    /\ \E ok \in Outcomes(F, "db") :
          LET r == FindByIdAndUpdate(store, call[p].id, [isDeleted |-> TRUE])
          IN  IF ~ok
              THEN /\ store' = store
                   /\ Throw(p, "DbError", "srDb", Internal("Error soft-deleting entity"))
              ELSE /\ store' = r.store
                   /\ IF r.doc = NoVal
                      THEN Throw(p, "NotFoundException", "srDb",
                                 Internal("Error soft-deleting entity"))
                      ELSE Goto(p, "srLog", r.doc)
    /\ UNCHANGED <<allocated, cache, auditLog, events, call, storeAtCall, stale, racy>>

\* await this.logActivity('softDelete', id, user); return
SoftRemoveLog(p) ==
    /\ pc[p] = "srLog"
    /\ \E ok \in AuditOutcomes :
          LET r == LogActivity(ok, "softDelete", call[p].id)
          IN  /\ auditLog' = r.log
              /\ IF r.raised
                 THEN Throw(p, "AuditError", "srLog", Internal("Error soft-deleting entity"))
                 ELSE Return(p, [shape |-> "void"])
    /\ UNCHANGED <<store, allocated, cache, events, call, storeAtCall, stale, racy>>

(* ------------------------- findAll and search ------------------------ *)

\* The filter findAll is called with: search passes { $text: { $search: query } }.
Filter(p) == IF call[p].op = "search" THEN TextFilter(call[p].data) ELSE EmptyFilter

\* search wraps its findAll call in a try block of its own.
FindAllThrow(p, err, at, inTry) ==
    Throw(p, err, at,
          IF call[p].op = "search" THEN Internal("Error searching entities")
          ELSE IF inTry THEN Internal("Error fetching entities")
          ELSE Raw(err))

\* findAll's return: to the caller, or back into search.
FindAllReturn(p, v) == IF call[p].op = "search" THEN Goto(p, "sLog", v) ELSE Return(p, v)

\* const condition = await this.onFinding(filter, user)
FindAllFinding(p, F) ==
    /\ pc[p] = "faFinding"
    /\ \E ok \in Outcomes(F, "hook") :
          IF ok
          THEN Goto(p, "faGet", [shape |-> "query", cond |-> onFinding(Filter(p))])
          ELSE FindAllThrow(p, "HookError", "faFinding", FALSE)
    /\ UNCHANGED <<store, allocated, cache, auditLog, events, call, storeAtCall, stale, racy>>

\* const cachedResult = await this.cacheService.getCached(cacheKey)
FindAllGet(p, F) ==
    /\ pc[p] = "faGet"
    /\ \E ok \in Outcomes(F, "cache") :
          LET v == GetCached(cache, FindAllKey(local[p].cond, DefaultPage, DefaultLimit, NoSort))
          IN  IF ~ok THEN FindAllThrow(p, "CacheError", "faGet", FALSE)
              ELSE IF v # NoVal THEN FindAllReturn(p, v)
              ELSE Goto(p, "faCount", local[p])
    /\ UNCHANGED <<store, allocated, cache, auditLog, events, call, storeAtCall, stale, racy>>

\* const total = await this.model.countDocuments(condition).exec()
FindAllCount(p, F) ==
    /\ pc[p] = "faCount"
    /\ \E ok \in Outcomes(F, "db") :
          IF ok
          THEN Goto(p, "faFind", [shape |-> "query", cond |-> local[p].cond,
                                  total |-> CountDocuments(store, local[p].cond)])
          ELSE FindAllThrow(p, "DbError", "faCount", TRUE)
    /\ UNCHANGED <<store, allocated, cache, auditLog, events, call, storeAtCall, stale, racy>>

\* const data = await this.model.find(condition).skip(skip).limit(limit).sort(sort).exec()
FindAllFind(p, F) ==
    /\ pc[p] = "faFind"
    /\ \E ok \in Outcomes(F, "db") :
          IF ok
          THEN Goto(p, "faView", [shape |-> "query", cond |-> local[p].cond,
                                  total |-> local[p].total,
                                  data |-> Find(store, local[p].cond)])
          ELSE FindAllThrow(p, "DbError", "faFind", TRUE)
    /\ UNCHANGED <<store, allocated, cache, auditLog, events, call, storeAtCall, stale, racy>>

\* const processedData = await this.onView(data, user); result = { data, total, page, limit }
FindAllView(p, F) ==
    /\ pc[p] = "faView"
    /\ \E ok \in Outcomes(F, "hook") :
          IF ok
          THEN Goto(p, "faSet", [shape |-> "query", cond |-> local[p].cond,
                                 result |-> [shape |-> "page", data |-> onView(local[p].data),
                                             total |-> local[p].total,
                                             page |-> DefaultPage, limit |-> DefaultLimit]])
          ELSE FindAllThrow(p, "HookError", "faView", TRUE)
    /\ UNCHANGED <<store, allocated, cache, auditLog, events, call, storeAtCall, stale, racy>>

\* await this.cacheService.setCached(cacheKey, result)
FindAllSet(p, F) ==
    /\ pc[p] = "faSet"
    /\ \E ok \in Outcomes(F, "cache") :
          LET key == FindAllKey(local[p].cond, DefaultPage, DefaultLimit, NoSort)
          IN  IF ok
              THEN /\ cache' = SetCached(cache, key, local[p].result)
                   /\ stale' = stale \ {key}
                   /\ Goto(p, "faLog", local[p])
              ELSE /\ UNCHANGED <<cache, stale>>
                   /\ FindAllThrow(p, "CacheError", "faSet", TRUE)
    /\ UNCHANGED <<store, allocated, auditLog, events, call, storeAtCall, racy>>

\* await this.logActivity('viewAll', '', user, condition); return result
FindAllLog(p) ==
    /\ pc[p] = "faLog"
    /\ \E ok \in AuditOutcomes :
          LET r == LogActivity(ok, "viewAll", "")
          IN  /\ auditLog' = r.log
              /\ IF r.raised
                 THEN FindAllThrow(p, "AuditError", "faLog", TRUE)
                 ELSE FindAllReturn(p, local[p].result)
    /\ UNCHANGED <<store, allocated, cache, events, call, storeAtCall, stale, racy>>

\* await this.logActivity('search', '', user, { query }); return result
SearchLog(p) ==
    /\ pc[p] = "sLog"
    /\ \E ok \in AuditOutcomes :
          LET r == LogActivity(ok, "search", "")
          IN  /\ auditLog' = r.log
              /\ IF r.raised
                 THEN Throw(p, "AuditError", "sLog", Internal("Error searching entities"))
                 ELSE Return(p, local[p])
    /\ UNCHANGED <<store, allocated, cache, events, call, storeAtCall, stale, racy>>

(* ------------------------------ findOne ------------------------------- *)

\* data[0] ? data[0] : data, where data is what this.onView([entity], user)
\* returned without await: a promise, which has no element 0.
FirstOrAll(data) ==
    IF data.shape = "list" /\ Len(data.items) > 0
    THEN [shape |-> "entity", e |-> data.items[1]]
    ELSE data

\* const cachedEntity = await this.cacheService.getCached<T>(cacheKey)
FindOneGet(p, F) ==
    /\ pc[p] = "foGet"
    /\ \E ok \in Outcomes(F, "cache") :
          LET v == GetCached(cache, FindOneKey(call[p].id))
          IN  IF ~ok THEN Throw(p, "CacheError", "foGet", Raw("CacheError"))
              ELSE IF v # NoVal THEN Return(p, [shape |-> "entity", e |-> v])
              ELSE Goto(p, "foDb", NoVal)
    /\ UNCHANGED <<store, allocated, cache, auditLog, events, call, storeAtCall, stale, racy>>

\* const entity = await this.model.findById(id).exec()
FindOneDb(p, F) ==
    /\ pc[p] = "foDb"
    /\ \E ok \in Outcomes(F, "db") :
          LET r == FindById(store, call[p].id)
          IN  IF ~ok THEN Throw(p, "DbError", "foDb", Internal("Error fetching entity"))
              ELSE IF r.doc = NoVal
              THEN Throw(p, "NotFoundException", "foDb", Internal("Error fetching entity"))
              ELSE Goto(p, "foSet", r.doc)
    /\ UNCHANGED <<store, allocated, cache, auditLog, events, call, storeAtCall, stale, racy>>

\* await this.cacheService.setCached(cacheKey, entity)
FindOneSet(p, F) ==
    /\ pc[p] = "foSet"
    /\ \E ok \in Outcomes(F, "cache") :
          LET key == FindOneKey(call[p].id)
          IN  IF ok
              THEN /\ cache' = SetCached(cache, key, local[p])
                   /\ stale' = stale \ {key}
                   /\ racy' = IF local[p] = Lookup(store, call[p].id)
                              THEN racy \ {key} ELSE racy \cup {key}
                   /\ Goto(p, "foLog", local[p])
              ELSE /\ UNCHANGED <<cache, stale, racy>>
                   /\ Throw(p, "CacheError", "foSet", Internal("Error fetching entity"))
    /\ UNCHANGED <<store, allocated, auditLog, events, call, storeAtCall>>

\* await this.logActivity('view', id, user); const data = this.onView([entity], user);
\* return data[0] ? data[0] : data
FindOneLog(p) ==
    /\ pc[p] = "foLog"
    /\ \E ok \in AuditOutcomes :
          LET r == LogActivity(ok, "view", call[p].id)
              data == [shape |-> "promise",
                       of |-> [shape |-> "list", items |-> <<local[p]>>]]
              ret == FirstOrAll(data)
          IN  /\ auditLog' = r.log
              /\ IF r.raised
                 THEN Throw(p, "AuditError", "foLog", Internal("Error fetching entity"))
                 ELSE IF ret.shape = "promise"
                 THEN Goto(p, "foView", ret.of)
                 ELSE Return(p, ret)
    /\ UNCHANGED <<store, allocated, cache, events, call, storeAtCall, stale, racy>>

\* The promise findOne returned settles as the one onView returned: the try
\* block is left by then.
FindOneView(p, F) ==
    /\ pc[p] = "foView"
    /\ \E ok \in Outcomes(F, "hook") :
          IF ok
          THEN Return(p, [shape |-> "list", items |-> onView(local[p].items)])
          ELSE Throw(p, "HookError", "foView", Raw("HookError"))
    /\ UNCHANGED <<store, allocated, cache, auditLog, events, call, storeAtCall, stale, racy>>

(* --------------------------- specifications --------------------------- *)

Step(p, O, F) ==
    \/ Start(p, O)
    \/ Settle(p)
    \/ CreateBefore(p, F) \/ CreateSave(p, F) \/ CreateAfter(p, F)
    \/ CreateLog(p) \/ CreateDel(p, F)
    \/ UpdateBefore(p, F) \/ UpdateDb(p, F) \/ UpdateAfter(p, F)
    \/ UpdateLog(p) \/ UpdateDelOne(p, F) \/ UpdateDelAll(p, F)
    \/ RemoveFind(p, F) \/ RemoveBefore(p, F) \/ RemoveDelete(p, F) \/ RemoveAfter(p, F)
    \/ RemoveLog(p) \/ RemoveDelOne(p, F) \/ RemoveDelAll(p, F)
    \/ SoftRemoveDb(p, F) \/ SoftRemoveLog(p)
    \/ FindAllFinding(p, F) \/ FindAllGet(p, F) \/ FindAllCount(p, F)
    \/ FindAllFind(p, F) \/ FindAllView(p, F) \/ FindAllSet(p, F)
    \/ FindAllLog(p) \/ SearchLog(p)
    \/ FindOneGet(p, F) \/ FindOneDb(p, F) \/ FindOneSet(p, F)
    \/ FindOneLog(p) \/ FindOneView(p, F)

\* One caller, every method, every dependency may fail.
Next == Step("p1", Ops, AllFaults)
Spec == Init /\ [][Next]_vars

\* One caller, every method, default hooks and a cache that does not fail.
NextDefault == Step("p1", Ops, {"db"})
SpecDefault == Init /\ [][NextDefault]_vars

\* Concurrent callers of create, findOne, update and remove; nothing fails.
ConcurrentOps == {"create", "findOne", "update", "remove"}
StepConcurrent(p, O, F) ==
    \/ Start(p, O)
    \/ Settle(p)
    \/ CreateBefore(p, F) \/ CreateSave(p, F) \/ CreateAfter(p, F)
    \/ CreateLog(p) \/ CreateDel(p, F)
    \/ UpdateBefore(p, F) \/ UpdateDb(p, F) \/ UpdateAfter(p, F)
    \/ UpdateLog(p) \/ UpdateDelOne(p, F) \/ UpdateDelAll(p, F)
    \/ RemoveFind(p, F) \/ RemoveBefore(p, F) \/ RemoveDelete(p, F) \/ RemoveAfter(p, F)
    \/ RemoveLog(p) \/ RemoveDelOne(p, F) \/ RemoveDelAll(p, F)
    \/ FindOneGet(p, F) \/ FindOneDb(p, F) \/ FindOneSet(p, F)
    \/ FindOneLog(p) \/ FindOneView(p, F)
NextConcurrent == \E p \in Procs : StepConcurrent(p, ConcurrentOps, {})
SpecConcurrent == Init /\ [][NextConcurrent]_vars

(* ------------------------------ claims -------------------------------- *)

Done(p) == pc[p] = "done"
Failed(p) == Done(p) /\ result[p].kind \notin {"none", "ok"}
Quiescent == \A p \in Procs : pc[p] \in {"idle", "done"}
WriteOps == {"create", "update", "remove", "softRemove"}
FindAllCached == {k \in DOMAIN cache : k[1] = "findAll"}

\* C1: a call with a well-formed identifier that matches no document fails
\* with a not-found error the caller can tell apart from the internal error.
NotFoundIsDistinguished ==
    \A p \in Procs :
        Done(p) /\ thrown[p].err = "NotFoundException"
            => result[p].kind = "NotFoundException"

\* C2: update, remove, findOne and softRemove called with an invalid
\* identifier fail at once with BadRequest 'Invalid ID format', leave the
\* collection, the cache, the audit log and the events as they were, and
\* never reach an await (so no hook, database or cache call is made).
InvalidIdRejectedFirst ==
    /\ [](\A p \in Procs :
            call[p].op \in {"update", "remove", "findOne", "softRemove"}
            /\ call[p].id \notin ValidIds
                => /\ pc[p] = "done"
                   /\ result[p] = Failure("BadRequestException", "Invalid ID format"))
    /\ [][\A p \in Procs :
            pc[p] = "idle" /\ pc'[p] # "idle"
            /\ call'[p].op \in {"update", "remove", "findOne", "softRemove"}
            /\ call'[p].id \notin ValidIds
                => UNCHANGED <<store, cache, auditLog, events>>]_vars

\* C2 witness: an invalid identifier was rejected while the collection, the
\* cache and the audit log all held something.
InvalidIdRejectedWitness ==
    /\ Done("p1") /\ call["p1"].op = "softRemove" /\ call["p1"].id = "bad"
    /\ result["p1"].kind = "BadRequestException"
    /\ store # << >> /\ cache # << >> /\ auditLog # << >>

\* C3: whenever a step of an operation fails (a hook, a cache call, a
\* database call, the event emission), the caller gets the generic internal
\* server error, never the original error.
EveryFailureIsInternal ==
    \A p \in Procs :
        Done(p) /\ thrown[p].err \in {"HookError", "CacheError", "DbError", "TypeError"}
            => result[p].kind = "InternalServerErrorException"

\* Where each method resumes after its logActivity call.
AfterAudit(p) ==
    CASE pc[p] = "cLog" -> "cDel"
      [] pc[p] = "uLog" -> "uDelOne"
      [] pc[p] = "rLog" -> "rDelOne"
      [] pc[p] = "foLog" -> "foView"
      [] pc[p] = "faLog" /\ call[p].op = "search" -> "sLog"
      [] OTHER -> "done"

\* C4: the audit append, failing or not, raises nothing and touches neither
\* the collection, the cache nor the events: the call resumes at the same
\* statement either way, and if that is its return, it returns normally.
AuditIsBestEffort ==
    [][\A p \in Procs :
          pc[p] \in {"cLog", "uLog", "rLog", "srLog", "faLog", "sLog", "foLog"}
          /\ pc'[p] # pc[p]
              => /\ UNCHANGED <<store, cache, events>>
                 /\ thrown'[p] = NoError
                 /\ pc'[p] = AfterAudit(p)
                 /\ pc'[p] = "done" => result'[p].kind = "ok"]_vars

\* C4 witness: a softRemove returned normally although its audit append
\* failed (the log is still empty).
AuditFailureWitness ==
    /\ Done("p1") /\ call["p1"].op = "softRemove" /\ result["p1"].kind = "ok"
    /\ auditLog = << >>

\* C5: a create, update or remove in which no hook, cache call or database
\* call failed and the document was found emits its lifecycle event and
\* returns without error.
WriteEmitsAndReturns ==
    \A p \in Procs :
        Done(p) /\ call[p].op \in {"create", "update", "remove"}
        /\ thrown[p].err \notin {"BadRequestException", "NotFoundException",
                                 "HookError", "CacheError", "DbError"}
            => /\ result[p].kind = "ok"
               /\ Len(events) > 0
               /\ events[Len(events)].name =
                      (IF call[p].op = "remove" THEN "deleted" ELSE "saved")

\* C6: after softRemove(id) has marked an existing document as deleted, the
\* cache holds no entry of that document and no findAll page, and a
\* lifecycle event has been emitted.
SoftRemoveInvalidatesAndEmits ==
    \A p \in Procs :
        Done(p) /\ call[p].op = "softRemove" /\ result[p].kind = "ok"
            => /\ FindOneKey(call[p].id) \notin DOMAIN cache
               /\ FindAllCached = {}
               /\ Len(events) > 0

\* Did the call end after its database write took effect.
WroteLabels ==
    {"cAfter", "cLog", "cDel", "cEmit", "uAfter", "uLog", "uDelOne", "uDelAll", "uEmit",
     "rAfter", "rLog", "rDelOne", "rDelAll", "rEmit"}
Wrote(p) == Done(p) /\ (result[p].kind = "ok" \/ thrown[p].at \in WroteLabels)

\* C7: in a sequential run with default hooks and a cache that does not
\* fail, when a create that saved its document has ended the cache holds no
\* findAll page, when an update or remove that changed the collection has
\* ended it holds neither that document's entry nor a findAll page, and
\* between calls no cache entry predates such a write: a later findOne or
\* findAll cannot be served a value cached before it.
WritesInvalidateCache ==
    /\ \A p \in Procs :
          /\ call[p].op = "create" /\ Wrote(p) => FindAllCached = {}
          /\ call[p].op \in {"update", "remove"} /\ Wrote(p)
                => FindAllCached = {} /\ FindOneKey(call[p].id) \notin DOMAIN cache
    /\ Quiescent => stale = {}

\* C7 witness: an update has changed the document while the cache held its
\* entry and a findAll page, and is about to drop them.
WritesInvalidateWitness ==
    /\ pc["p1"] = "uDelOne"
    /\ FindOneKey(call["p1"].id) \in stale
    /\ \E k \in stale : k[1] = "findAll"

FindOneAnswersAlike ==
    \A p \in Procs :
        Done(p) /\ call[p].op = "findOne" /\ result[p].kind = "ok"
            => /\ result[p].value.shape = "entity"
               /\ <<result[p].value.e>> = onView(<<Lookup(store, call[p].id)>>)

\* C10 as stated: a create, update, remove or softRemove that ends by
\* throwing leaves the collection as it was when it was called.
FailedWriteLeavesStore ==
    \A p \in Procs :
        Failed(p) /\ call[p].op \in WriteOps => store = storeAtCall[p]

\* Where an error is raised before the database write has taken effect.
BeforeWriteLabels ==
    {"start", "cBefore", "cSave", "uBefore", "uDb", "rFind", "rBefore", "rDelete", "srDb"}

\* C10 amended: a failed write leaves the collection as it was when the
\* error arose before the database write took effect (invalid identifier,
\* pre-hook, the database call itself, not found); an error raised after it
\* (post-hook, cache invalidation, event emission) leaves the write applied.
FailedWriteKeepsStoreOnlyBeforeWrite ==
    \A p \in Procs :
        Failed(p) /\ call[p].op \in WriteOps =>
            IF thrown[p].at \in BeforeWriteLabels
            THEN store = storeAtCall[p]
            ELSE CASE call[p].op = "create" ->
                        \E id \in DOMAIN store \ DOMAIN storeAtCall[p] :
                            store[id].data = call[p].data
                   [] call[p].op = "update" ->
                        /\ call[p].id \in DOMAIN store
                        /\ store[call[p].id].data = call[p].data
                   [] call[p].op = "remove" ->
                        /\ call[p].id \in DOMAIN storeAtCall[p]
                        /\ call[p].id \notin DOMAIN store
                   [] OTHER -> FALSE

\* C10 witness: a remove whose beforeRemove hook failed, with the document
\* still stored.
FailedBeforeWriteWitness ==
    /\ Done("p1") /\ call["p1"].op = "remove"
    /\ thrown["p1"] = Error("HookError", "rBefore")
    /\ call["p1"].id \in DOMAIN store

====
